---- MODULE Spec2Model ----
(***************************************************************************)
(* Redaction-session lifecycle of the dual-engine document redaction       *)
(* service (src/main.py, src/core/redis_client.py).                        *)
(*                                                                         *)
(* State: the Redis store (document_id -> JSON payload with an expiry),    *)
(* the wall clock, the redact calls in flight or answered, the temporary   *)
(* files on disk, the scheduled background clean-up tasks and the reply of *)
(* the decrypt / unredact call answered in the current step, and the       *)
(* process itself: importing main.py, serving, exited or crashed, with the *)
(* redis_client that core.redis_client bound at import.                    *)
(*                                                                         *)
(* core.engine and core.security are imported by main.py but are not part  *)
(* of the available source; they are modelled from the specification       *)
(* (sections 4.1, 4.3, 4.5, 4.6).                                          *)
(***************************************************************************)
EXTENDS Integers, Sequences, FiniteSets, TLC

(***************************************************************************)
(* Bounds of the model.                                                    *)
(***************************************************************************)
\* Number of redact calls (over both endpoints) in one behaviour.
MaxRedacts == 2
\* Number of clock steps; each step is half the time-to-live.
MaxTicks == 2

(***************************************************************************)
(* Python values.                                                          *)
(***************************************************************************)
\* Python's None.
None == [none |-> TRUE]

\* An empty dict.
EmptyDict == [x \in {} |-> x]

\* Python truthiness of the values the handlers test: None and an empty
\* container are false.
Truthy(v) == v # None /\ DOMAIN v # {}

(***************************************************************************)
(* base64.urlsafe_b64encode / urlsafe_b64decode (Python standard library)  *)
(* as main.py uses them on keys.  A byte string is a sequence over 0..255, *)
(* a text string a sequence of one-character strings.                      *)
(***************************************************************************)
StdAlphabet ==
  << "A","B","C","D","E","F","G","H","I","J","K","L","M","N","O","P",
     "Q","R","S","T","U","V","W","X","Y","Z","a","b","c","d","e","f",
     "g","h","i","j","k","l","m","n","o","p","q","r","s","t","u","v",
     "w","x","y","z","0","1","2","3","4","5","6","7","8","9","+","/" >>

\* Characters outside ASCII that the model's inputs use.
NonAsciiChars == {"é"}

\* '+' -> '-' and '/' -> '_' (encode), and back (decode).
UrlsafeEncodeChar(ch) == IF ch = "+" THEN "-" ELSE IF ch = "/" THEN "_" ELSE ch
UrlsafeDecodeChar(ch) == IF ch = "-" THEN "+" ELSE IF ch = "_" THEN "/" ELSE ch

\* binascii's decode table: the sextet of a character, 64 for a character
\* that is not in the alphabet.
SextetOf(ch) ==
  IF \E i \in 1..64 : StdAlphabet[i] = ch
    THEN (CHOOSE i \in 1..64 : StdAlphabet[i] = ch) - 1
    ELSE 64

RECURSIVE b64encode(_)
b64encode(bytes) ==
  IF Len(bytes) = 0 THEN <<>>
  ELSE IF Len(bytes) = 1 THEN
    << StdAlphabet[(bytes[1] \div 4) + 1],
       StdAlphabet[((bytes[1] % 4) * 16) + 1], "=", "=" >>
  ELSE IF Len(bytes) = 2 THEN
    << StdAlphabet[(bytes[1] \div 4) + 1],
       StdAlphabet[((bytes[1] % 4) * 16 + bytes[2] \div 16) + 1],
       StdAlphabet[((bytes[2] % 16) * 4) + 1], "=" >>
  ELSE
    << StdAlphabet[(bytes[1] \div 4) + 1],
       StdAlphabet[((bytes[1] % 4) * 16 + bytes[2] \div 16) + 1],
       StdAlphabet[((bytes[2] % 16) * 4 + bytes[3] \div 64) + 1],
       StdAlphabet[(bytes[3] % 64) + 1] >>
    \o b64encode(SubSeq(bytes, 4, Len(bytes)))

urlsafe_b64encode(bytes) ==
  LET std == b64encode(bytes)
  IN  [i \in 1..Len(std) |-> UrlsafeEncodeChar(std[i])]

\* binascii.a2b_base64 without strict mode: characters outside the
\* alphabet are skipped, a complete pad sequence ends the parse, and data
\* that stops inside a quad is an error.
RECURSIVE a2b_base64(_, _, _, _, _, _)
a2b_base64(s, i, quad_pos, leftchar, pads, out) ==
  IF i > Len(s) THEN
    IF quad_pos # 0 THEN [raised |-> TRUE, bytes |-> <<>>]
                    ELSE [raised |-> FALSE, bytes |-> out]
  ELSE IF s[i] = "=" THEN
    IF quad_pos >= 2 /\ quad_pos + pads + 1 >= 4
      THEN [raised |-> FALSE, bytes |-> out]
      ELSE a2b_base64(s, i + 1, quad_pos, leftchar,
                      IF quad_pos >= 2 THEN pads + 1 ELSE pads, out)
  ELSE IF SextetOf(s[i]) >= 64 THEN
    a2b_base64(s, i + 1, quad_pos, leftchar, pads, out)
  ELSE
    LET v == SextetOf(s[i])
    IN  CASE quad_pos = 0 -> a2b_base64(s, i + 1, 1, v, 0, out)
          [] quad_pos = 1 ->
               a2b_base64(s, i + 1, 2, v % 16, 0,
                          Append(out, leftchar * 4 + v \div 16))
          [] quad_pos = 2 ->
               a2b_base64(s, i + 1, 3, v % 4, 0,
                          Append(out, leftchar * 16 + v \div 4))
          [] OTHER ->
               a2b_base64(s, i + 1, 0, 0, 0, Append(out, leftchar * 64 + v))

\* urlsafe_b64decode of a str: a non-ASCII character raises ValueError,
\* then '-' and '_' are translated and the rest is a2b_base64.
urlsafe_b64decode(s) ==
  IF \E i \in 1..Len(s) : s[i] \in NonAsciiChars
    THEN [raised |-> TRUE, bytes |-> <<>>]
    ELSE a2b_base64([i \in 1..Len(s) |-> UrlsafeDecodeChar(s[i])],
                    1, 0, 0, 0, <<>>)

(***************************************************************************)
(* Inputs of the model.                                                    *)
(***************************************************************************)
\* The two redaction endpoints.
Endpoints == {"llm", "classic"}

\* The uploaded documents: A and B hold sensitive items, E holds none.
Uploads == {"A", "B", "E"}

\* What a redaction engine extracts from an upload: page identifier ->
\* ordered items, each a plaintext and a bounding box.
PlainItems(upload) ==
  CASE upload = "A" ->
         [p \in {"0"} |->
            << [text |-> "alice", bbox |-> <<10, 10, 60, 20>>],
               [text |-> "bob",   bbox |-> <<10, 30, 40, 40>>] >>]
    [] upload = "B" ->
         [p \in {"0", "1"} |->
            IF p = "0" THEN << [text |-> "carol", bbox |-> <<5, 5, 50, 15>>] >>
                       ELSE << [text |-> "dave",  bbox |-> <<7, 70, 45, 80>>] >>]
    [] OTHER -> EmptyDict

(***************************************************************************)
(* core.security (not in the available source; specification 4.1, 4.5).    *)
(***************************************************************************)
\* generate_key(): the n-th key of the process.  A fresh random symmetric
\* key, distinct from every key generated before ("unique with overwhelming
\* probability"); a byte string.
generate_key(n) == << (65 + 186 * (n - 1)) % 256, (66 + 173 * (n - 1)) % 256 >>

\* Number of bytes of a key.
KeyLen == Len(generate_key(1))

\* Authenticated encryption of one text under a key: an opaque token.
encrypt_text(key, text) == [token |-> "ciphertext", under |-> key, of |-> text]

\* decrypt_text(key, token): the plaintext, or ValueError when the token
\* was not produced under this key (authenticated decryption).
decrypt_text(key, token) ==
  IF token.under = key THEN [raised |-> FALSE, text |-> token.of]
                       ELSE [raised |-> TRUE,  text |-> ""]

(***************************************************************************)
(* uuid.uuid4() (Python standard library): the n-th identifier of the      *)
(* process; a random 122-bit value, modelled as never repeating.           *)
(***************************************************************************)
uuid4(n) == n

(***************************************************************************)
(* core.engine (not in the available source; specification 4.3, 4.6).      *)
(***************************************************************************)
\* The encrypted-pages structure of the items of an upload under a key.
EncryptPages(items, key) ==
  [pages |->
     [p \in DOMAIN items |->
        [i \in 1..Len(items[p]) |->
           [encrypted_text |-> encrypt_text(key, items[p][i].text),
            bbox |-> items[p][i].bbox]]]]

\* One engine run on the saved upload: EngineFailure, or the redacted
\* artifact with the encrypted items (None when nothing was extracted).
EngineGateway(n, upload, key, engine_ok) ==
  IF ~engine_ok
    THEN [raised |-> TRUE, redacted_file_path |-> <<>>,
          encrypted_metadata |-> None]
    ELSE [raised |-> FALSE,
          redacted_file_path |-> <<"redacted_files", "redacted", n>>,
          encrypted_metadata |->
            IF PlainItems(upload) = EmptyDict THEN None
            ELSE EncryptPages(PlainItems(upload), key)]

process_document_llm(n, upload, key, engine_ok) ==
  EngineGateway(n, upload, key, engine_ok)

process_document_classic(n, upload, key, engine_ok) ==
  EngineGateway(n, upload, key, engine_ok)

\* The plaintext pages of a stored structure under a key; raised when any
\* item fails to decrypt.
DecryptPages(encrypted_metadata, key) ==
  LET pages == encrypted_metadata.pages
      bad == \E p \in DOMAIN pages : \E i \in 1..Len(pages[p]) :
               decrypt_text(key, pages[p][i].encrypted_text).raised
  IN  IF bad THEN [raised |-> TRUE, pages |-> EmptyDict]
      ELSE [raised |-> FALSE,
            pages |->
              [p \in DOMAIN pages |->
                 [i \in 1..Len(pages[p]) |->
                    [text |-> decrypt_text(key, pages[p][i].encrypted_text).text,
                     bbox |-> pages[p][i].bbox]]]]

\* unredact_document(path, key, metadata): the restored document (the
\* artifact with every decrypted text back at its bounding box), or an
\* exception when an item does not decrypt under the key.
unredact_document(n, file, key, encrypted_metadata) ==
  LET d == DecryptPages(encrypted_metadata, key)
  IN  IF d.raised
        THEN [raised |-> TRUE, restored_file_path |-> <<>>, document |-> None]
        ELSE [raised |-> FALSE,
              restored_file_path |-> <<"redacted_files", "restored", n>>,
              document |-> [artifact |-> file, items |-> d.pages]]

(***************************************************************************)
(* json.dumps / json.loads of the encrypted metadata: the stored value is  *)
(* a JSON text, not the dict.                                              *)
(***************************************************************************)
json_dumps(obj) == [json |-> obj]
json_loads(text) == text.json

(***************************************************************************)
(* The Redis client (redis-py against a Redis server).                     *)
(***************************************************************************)
\* Time-to-live of a stored session, in seconds.
TTL_SECONDS == 86400

\* A slip: the two copies of the handler drift apart.
TTL_SECONDS_HOUR == TTL_SECONDS \div 24

\* The same literal in redact_classic_endpoint.
TTL_SECONDS_CLASSIC == 86400

\* One clock step of the model.
TickStep == TTL_SECONDS \div 2

\* Document identifiers a caller can send: the issued ones and 0, which is
\* never issued.
DocIds == 0..MaxRedacts

\* SET key value EX seconds: replaces the entry and its expiry.
redis_set(db, key, value, ex, t) ==
  [db EXCEPT ![key] = [value |-> value, expire_at |-> t + ex]]

\* GET key: the value, or None.
redis_get(db, key) == IF db[key] = None THEN None ELSE db[key].value

\* Redis's own expiry: an entry is gone once its time-to-live has elapsed.
redis_expire(db, t) ==
  [k \in DOMAIN db |->
     IF db[k] # None /\ db[k].expire_at <= t THEN None ELSE db[k]]

(***************************************************************************)
(* State.                                                                  *)
(***************************************************************************)
VARIABLES
  now,      \* wall clock, seconds
  redis,    \* the store: document_id -> None or [value, expire_at]
  calls,    \* redact calls by order of arrival: the handler's locals
  files,    \* temporary files on disk
  tasks,    \* background clean-up tasks scheduled and not yet run
  reply,    \* the decrypt / unredact exchange on its way to the caller
  process,  \* the server process: "importing", "serving", "exited", "crashed"
  redis_client  \* core.redis_client.redis_client: Unbound, None or the client

vars == <<now, redis, calls, files, tasks, reply, process, redis_client>>

IdleCall == [pc |-> "idle"]
NoReply == [op |-> "none"]

\* A name with no binding in the module's namespace.
Unbound == [unbound |-> TRUE]

\* The connected Redis client.
RedisClient == [client |-> "redis"]

Init ==
  /\ now = 0
  /\ redis = [d \in DocIds |-> None]
  /\ calls = [c \in 1..MaxRedacts |-> IdleCall]
  /\ files = {}
  /\ tasks = {}
  /\ reply = NoReply
  /\ process = "importing"
  /\ redis_client = Unbound

(***************************************************************************)
(* Start-up: the import of core/redis_client.py and of main.py.            *)
(***************************************************************************)
\* What the server answers to the PING of the import, or how the PING fails.
PingOutcomes == {"PONG", "ConnectionError", "TimeoutError"}

\* core/redis_client.py lines 10-19: the client, None after a
\* ConnectionError; any other exception leaves the import and the name
\* stays unbound.
connect(ping) ==
  CASE ping = "PONG" -> RedisClient
    [] ping = "ConnectionError" -> None
    [] OTHER -> Unbound

\* A slip: the start-up check of the client is missing.
ProcessAfterImportUnchecked(client) ==
  IF client = Unbound THEN "crashed" ELSE "serving"

\* main.py lines 2 and 21-23: a failed import ends the process, a client
\* of None makes it exit, otherwise the application is served.
ProcessAfterImport(client) ==
  IF client = Unbound THEN "crashed"
  ELSE IF client = None THEN "exited"
  ELSE "serving"

Startup(ping) ==
  /\ process = "importing"
  /\ redis_client' = connect(ping)
  /\ process' = ProcessAfterImport(connect(ping))
  /\ UNCHANGED <<now, redis, calls, files, tasks, reply>>

\* Number of redact calls that have generated their key and document_id.
Issued == Cardinality({c \in 1..MaxRedacts : calls[c].pc # "idle"})

(***************************************************************************)
(* Redact: redact_llm_endpoint and redact_classic_endpoint.                *)
(***************************************************************************)
\* HTTPException(status_code=..., detail=...): no headers, no body.
HTTPException(status, detail) ==
  [status |-> status, detail |-> detail, headers |-> EmptyDict, body |-> None]

\* The FileResponse of a redaction with its two headers.
RedactResponse(redacted_file_path, document_id, key) ==
  [status |-> 200, detail |-> "",
   headers |-> [h \in {"X-Document-ID", "X-Decryption-Key"} |->
                  IF h = "X-Document-ID" THEN <<document_id>>
                                         ELSE urlsafe_b64encode(key)],
   body |-> redacted_file_path]

\* A slip: the session key is stored beside the encrypted items.
StoredValueWithKey(encrypted_metadata, key) ==
  json_dumps([pages |-> encrypted_metadata.pages, key |-> key])

\* The value written under document_id.
StoredValue(encrypted_metadata, key) == json_dumps(encrypted_metadata)

\* A slip: the test is inverted.
ShouldStoreInverted(encrypted_metadata) == ~Truthy(encrypted_metadata)

\* "if encrypted_metadata:" the store is written only for extracted items.
ShouldStore(encrypted_metadata) == Truthy(encrypted_metadata)

\* A slip: every session is written under one fixed name.
StoreKeyFixed(call) == uuid4(1)

\* The key the store entry is written under.
StoreKey(call) == call.document_id

\* A slip: one key generated at start-up serves every call.
EngineKeyShared(call) == generate_key(1)

\* The key handed to the engine to encrypt the extracted items.
EngineKey(call) == call.key

\* Lines 60-64 / 94-98: save the upload, generate the key and the
\* document_id.  Calls arrive in slot order.
RedactBegin(c, endpoint, upload) ==
  /\ process = "serving"
  /\ reply = NoReply
  /\ calls[c].pc = "idle"
  /\ \A b \in 1..(c - 1) : calls[b].pc # "idle"
  /\ calls' = [calls EXCEPT ![c] =
       [pc |-> "engine", endpoint |-> endpoint, upload |-> upload,
        input_path |-> <<"temp_uploads", "upload", c>>,
        key |-> generate_key(Issued + 1),
        document_id |-> uuid4(Issued + 1)]]
  /\ files' = files \cup {<<"temp_uploads", "upload", c>>}
  /\ reply' = NoReply
  /\ UNCHANGED <<now, redis, tasks, process, redis_client>>

\* A slip: the error of a failed redaction carries the session headers.
RedactExceptWithHeaders(call, db, created) ==
  [redis |-> db, created |-> created, task |-> <<call.input_path>>,
   response |-> [HTTPException(500, "An error occurred") EXCEPT
                   !.headers = [h \in {"X-Document-ID"} |-> <<call.document_id>>]]]

\* Lines 78-80 / 111-113, the except branch: cleanup_files is added for the
\* upload, then HTTPException is raised: the caller gets a bare 500 and the
\* store is not touched.
RedactExcept(call, db, created) ==
  [redis |-> db, created |-> created, task |-> <<call.input_path>>,
   response |-> HTTPException(500, "An error occurred")]

\* Lines 66-80, the try block of redact_llm_endpoint and its except
\* branch: what the handler leaves behind.  store_ok: whether
\* redis_client.set succeeds.
redact_llm_endpoint(c, call, db, t, engine_ok, store_ok) ==
  LET r == process_document_llm(c, call.upload, EngineKey(call), engine_ok)
      md == r.encrypted_metadata
  IN  IF r.raised THEN RedactExcept(call, db, {})
      ELSE IF ShouldStore(md) /\ ~store_ok
        THEN RedactExcept(call, db, {r.redacted_file_path})
      ELSE
        [redis |-> IF ShouldStore(md)
                     THEN redis_set(db, StoreKey(call),
                                    StoredValue(md, call.key), TTL_SECONDS, t)
                     ELSE db,
         created |-> {r.redacted_file_path},
         task |-> <<call.input_path, r.redacted_file_path>>,
         response |-> RedactResponse(r.redacted_file_path,
                                     call.document_id, call.key)]

\* Lines 100-113, the same of redact_classic_endpoint.
redact_classic_endpoint(c, call, db, t, engine_ok, store_ok) ==
  LET r == process_document_classic(c, call.upload, EngineKey(call), engine_ok)
      md == r.encrypted_metadata
  IN  IF r.raised THEN RedactExcept(call, db, {})
      ELSE IF ShouldStore(md) /\ ~store_ok
        THEN RedactExcept(call, db, {r.redacted_file_path})
      ELSE
        [redis |-> IF ShouldStore(md)
                     THEN redis_set(db, StoreKey(call),
                                    StoredValue(md, call.key),
                                    TTL_SECONDS_CLASSIC, t)
                     ELSE db,
         created |-> {r.redacted_file_path},
         task |-> <<call.input_path, r.redacted_file_path>>,
         response |-> RedactResponse(r.redacted_file_path,
                                     call.document_id, call.key)]

\* The handler of the endpoint the call came in on.
RedactTry(c, call, db, t, engine_ok, store_ok) ==
  IF call.endpoint = "llm"
    THEN redact_llm_endpoint(c, call, db, t, engine_ok, store_ok)
    ELSE redact_classic_endpoint(c, call, db, t, engine_ok, store_ok)

\* The locals of an answered call that the properties speak of; stored_at
\* records when the call wrote its session, for a call that wrote one.
DoneCall(call, response, wrote, t) ==
  IF wrote
    THEN [pc |-> "done", endpoint |-> call.endpoint, upload |-> call.upload,
          document_id |-> call.document_id, response |-> response,
          stored_at |-> t]
    ELSE [pc |-> "done", endpoint |-> call.endpoint, upload |-> call.upload,
          document_id |-> call.document_id, response |-> response]

\* The BackgroundTasks of a request.  The framework runs them after the
\* response the handler returned (lines 72-77, 105-110, 174-180); when the
\* handler raises after add_task (lines 79-80, 112-113, 182-183) the error
\* response is built without them and the task list is dropped unrun.
BackgroundTasks(ts, task, response) ==
  IF response.status = 200 /\ task # <<>> THEN ts \cup {task} ELSE ts

RedactFinish(c, engine_ok, store_ok) ==
  /\ process = "serving"
  /\ reply = NoReply
  /\ calls[c].pc = "engine"
  /\ LET out == RedactTry(c, calls[c], redis, now, engine_ok, store_ok)
     IN  /\ redis' = out.redis
         /\ files' = files \cup out.created
         /\ tasks' = BackgroundTasks(tasks, out.task, out.response)
         /\ calls' = [calls EXCEPT ![c] =
              DoneCall(calls[c], out.response, out.redis # redis, now)]
  /\ reply' = NoReply
  /\ UNCHANGED <<now, process, redis_client>>

\* cleanup_files, run as a background task after a returned response.
cleanup_files(fs, list) == fs \ {list[i] : i \in 1..Len(list)}

Cleanup(task) ==
  /\ process = "serving"
  /\ reply = NoReply
  /\ task \in tasks
  /\ files' = cleanup_files(files, task)
  /\ tasks' = tasks \ {task}
  /\ reply' = NoReply
  /\ UNCHANGED <<now, redis, calls, process, redis_client>>

(***************************************************************************)
(* Decrypt: decrypt_endpoint.                                              *)
(***************************************************************************)
\* ENCRYPTED_DATA_STORE is read at line 122 and bound nowhere: main.py
\* neither assigns nor imports it.
ENCRYPTED_DATA_STORE == Unbound

\* The exchange of a decrypt or unredact call.
Exchange(op, document_id, decryption_key, response) ==
  [op |-> op, document_id |-> document_id, decryption_key |-> decryption_key,
   status |-> response.status, detail |-> response.detail,
   body |-> response.body]

\* An exception no handler catches: the framework answers 500.
UnhandledException(name) ==
  [status |-> 500, detail |-> name, headers |-> EmptyDict, body |-> None]

\* Lines 123-138, given the looked-up value.
DecryptLookedUp(document_id, key_b64, encrypted_data) ==
  IF ~Truthy(encrypted_data)
    THEN HTTPException(404, "Document ID not found.")
  ELSE IF urlsafe_b64decode(key_b64).raised
    THEN HTTPException(400, "Invalid decryption key format.")
  ELSE
    LET d == DecryptPages(encrypted_data, urlsafe_b64decode(key_b64).bytes)
    IN  IF d.raised
          THEN HTTPException(403, "Decryption failed. The provided key is incorrect.")
          ELSE [status |-> 200, detail |-> "", headers |-> EmptyDict,
                body |-> [document_id |-> <<document_id>>, pages |-> d.pages]]

decrypt_endpoint(document_id, key_b64) ==
  IF ENCRYPTED_DATA_STORE = Unbound
    THEN UnhandledException("NameError")
    ELSE DecryptLookedUp(document_id, key_b64,
           IF document_id \in DOMAIN ENCRYPTED_DATA_STORE
             THEN ENCRYPTED_DATA_STORE[document_id] ELSE None)

Decrypt(document_id, key_b64) ==
  /\ process = "serving"
  /\ reply = NoReply
  /\ reply' = Exchange("decrypt", document_id, key_b64,
                       decrypt_endpoint(document_id, key_b64))
  /\ UNCHANGED <<now, redis, calls, files, tasks, process, redis_client>>

(***************************************************************************)
(* Restore: unredact_endpoint.                                             *)
(***************************************************************************)
\* Unredact calls whose temporary files may be on disk at one time.
MaxUnredacts == 1

\* A slip: the key is "one-time", the entry is deleted once looked up.
UnredactStoreOneTime(db, document_id) == [db EXCEPT ![document_id] = None]

\* The store as the restore handler leaves it: lines 153-183 read the
\* entry and hold no write, delete or expire call.
UnredactStore(db, document_id) == db

\* A slip: the handler looks in a dict of the process that nothing writes.
UnredactLookupInProcess(db, document_id) == None

\* The store lookup of the restore handler.
UnredactLookup(db, document_id) == redis_get(db, document_id)

\* Lines 153-183: what the handler leaves behind.  n names its files.
unredact_endpoint(n, db, file, document_id, decryption_key) ==
  LET encrypted_metadata_json == UnredactLookup(db, document_id)
      temp_redacted_path == <<"temp_uploads", "unredact", n>>
  IN  IF ~Truthy(encrypted_metadata_json) THEN
        [created |-> {}, task |-> <<>>,
         response |-> HTTPException(404, "Document ID not found or has expired.")]
      ELSE IF urlsafe_b64decode(decryption_key).raised THEN
        [created |-> {}, task |-> <<>>,
         response |-> HTTPException(400, "Invalid decryption key format.")]
      ELSE
        LET r == unredact_document(n, file,
                                   urlsafe_b64decode(decryption_key).bytes,
                                   json_loads(encrypted_metadata_json))
        IN  IF r.raised THEN
              [created |-> {temp_redacted_path},
               task |-> <<temp_redacted_path>>,
               response |-> HTTPException(500,
                              "An error occurred during un-redaction")]
            ELSE
              [created |-> {temp_redacted_path, r.restored_file_path},
               task |-> <<temp_redacted_path, r.restored_file_path>>,
               response |-> [status |-> 200, detail |-> "",
                             headers |-> EmptyDict, body |-> r.document]]

Unredact(n, file, document_id, decryption_key) ==
  /\ process = "serving"
  /\ reply = NoReply
  /\ <<"temp_uploads", "unredact", n>> \notin files
  /\ \A m \in 1..(n - 1) : <<"temp_uploads", "unredact", m>> \in files
  /\ LET out == unredact_endpoint(n, redis, file, document_id, decryption_key)
     IN  /\ files' = files \cup out.created
         /\ tasks' = BackgroundTasks(tasks, out.task, out.response)
         /\ reply' = Exchange("unredact", document_id, decryption_key,
                              out.response)
  /\ redis' = UnredactStore(redis, document_id)
  /\ UNCHANGED <<now, calls, process, redis_client>>

\* Key strings a caller sends: the encoding of every key the process can
\* issue, a second spelling of the first key (other trailing bits), a key
\* of the wrong length, and strings that are no URL-safe base64.
KeyInputs ==
  {urlsafe_b64encode(generate_key(n)) : n \in 1..MaxRedacts}
    \cup { <<"Q", "U", "J", "=">>, <<"Q", "Q", "=", "=">>,
           <<"Q", "U", "I">>, <<"!", "!", "!", "!">>, <<"é">> }

\* Redacted files a caller uploads for restoration.
RedactedFiles == {"redacted.pdf"}

\* The answer of a decrypt or unredact call reaches its caller.
Respond ==
  /\ reply # NoReply
  /\ reply' = NoReply
  /\ UNCHANGED <<now, redis, calls, files, tasks, process, redis_client>>

(***************************************************************************)
(* Time.                                                                   *)
(***************************************************************************)
Tick ==
  /\ reply = NoReply
  /\ now + TickStep <= MaxTicks * TickStep
  /\ now' = now + TickStep
  /\ redis' = redis_expire(redis, now + TickStep)
  /\ reply' = NoReply
  /\ UNCHANGED <<calls, files, tasks, process, redis_client>>

Next ==
  \/ \E ping \in PingOutcomes : Startup(ping)
  \/ \E c \in 1..MaxRedacts, e \in Endpoints, u \in Uploads : RedactBegin(c, e, u)
  \/ \E c \in 1..MaxRedacts, eok \in BOOLEAN, sok \in BOOLEAN :
       RedactFinish(c, eok, sok)
  \/ \E t \in tasks : Cleanup(t)
  \/ \E d \in DocIds, k \in KeyInputs : Decrypt(d, k)
  \/ \E n \in 1..MaxUnredacts, f \in RedactedFiles, d \in DocIds, k \in KeyInputs :
       Unredact(n, f, d, k)
  \/ Respond
  \/ Tick

Spec == Init /\ [][Next]_vars

\* The redact handlers, the clean-up tasks and the clock alone: decrypt and
\* unredact write neither the store nor a redact call's state.
NextRedact ==
  \/ \E ping \in PingOutcomes : Startup(ping)
  \/ \E c \in 1..MaxRedacts, e \in Endpoints, u \in Uploads : RedactBegin(c, e, u)
  \/ \E c \in 1..MaxRedacts, eok \in BOOLEAN, sok \in BOOLEAN :
       RedactFinish(c, eok, sok)
  \/ \E t \in tasks : Cleanup(t)
  \/ Tick

SpecRedact == Init /\ [][NextRedact]_vars

\* Redact calls in a behaviour of SpecServe.
MaxServeRedacts == 1

\* Every handler, with fewer redact calls: the sessions that decrypt and
\* unredact are called on.
NextServe ==
  \/ \E ping \in PingOutcomes : Startup(ping)
  \/ \E c \in 1..MaxServeRedacts, e \in Endpoints, u \in Uploads :
       RedactBegin(c, e, u)
  \/ \E c \in 1..MaxServeRedacts, eok \in BOOLEAN, sok \in BOOLEAN :
       RedactFinish(c, eok, sok)
  \/ \E t \in tasks : Cleanup(t)
  \/ \E d \in DocIds, k \in KeyInputs : Decrypt(d, k)
  \/ \E n \in 1..MaxUnredacts, f \in RedactedFiles, d \in DocIds, k \in KeyInputs :
       Unredact(n, f, d, k)
  \/ Respond
  \/ Tick

SpecServe == Init /\ [][NextServe]_vars

(***************************************************************************)
(* Vocabulary of the properties.                                           *)
(***************************************************************************)
Calls == 1..MaxRedacts

\* The redact call answered with the artifact and the session headers.
Answered(c) == calls[c].pc = "done" /\ calls[c].response.status = 200

\* The redact call answered with an error.
Failed(c) == calls[c].pc = "done" /\ calls[c].response.status # 200

\* The engine extracted at least one item from the call's upload.
Extracted(c) == PlainItems(calls[c].upload) # EmptyDict

\* The key string issued to the caller of an answered redact call.
IssuedKey(c) == calls[c].response.headers["X-Decryption-Key"]

\* The reply in flight answers operation op on the document of call c.
ReplyFor(op, c) ==
  /\ reply.op = op
  /\ calls[c].pc # "idle"
  /\ reply.document_id = calls[c].document_id

\* A key string that is the URL-safe encoding of some key of the right
\* length; every other string is malformed.
WellFormedKey(k) ==
  /\ ~urlsafe_b64decode(k).raised
  /\ Len(urlsafe_b64decode(k).bytes) = KeyLen
  /\ urlsafe_b64encode(urlsafe_b64decode(k).bytes) = k

\* This step is redact call c returning its response.
Returns(c) == calls[c].pc = "engine" /\ calls'[c].pc = "done"

(***************************************************************************)
(* C1.  After a redaction that extracted at least one item, a Decrypt with *)
(* the issued document_id and the issued key, made while the entry has not *)
(* expired, succeeds and returns page by page, in order, the plaintext     *)
(* texts and bounding boxes the engine extracted.                          *)
(* The code answers every Decrypt with an unhandled NameError (500).       *)
(***************************************************************************)
C1_DecryptRoundTrip ==
  \A c \in Calls :
    ( /\ ReplyFor("decrypt", c)
      /\ Answered(c) /\ Extracted(c)
      /\ redis[calls[c].document_id] # None
      /\ reply.decryption_key = IssuedKey(c) )
    => /\ reply.status = 200
       /\ reply.body.pages = PlainItems(calls[c].upload)

(***************************************************************************)
(* C2.  Decrypt and Restore called for an issued document_id with any key  *)
(* other than the issued one end in DecryptionFailed (403) or              *)
(* InvalidKeyFormat (400) and return no plaintext and no document.         *)
(***************************************************************************)
C2_WrongKeyFails ==
  \A c \in Calls :
    ( /\ reply.op \in {"decrypt", "unredact"}
      /\ ReplyFor(reply.op, c)
      /\ Answered(c)
      /\ reply.decryption_key # IssuedKey(c) )
    => reply.status \in {400, 403} /\ reply.body = None

(***************************************************************************)
(* C3.  Once the entry of a session has expired, every Decrypt and every   *)
(* Restore for its document_id, whatever the key, fails with               *)
(* SessionNotFound (404).                                                  *)
(***************************************************************************)
C3_ExpiredIsNotFound ==
  \A c \in Calls :
    ( /\ reply.op \in {"decrypt", "unredact"}
      /\ ReplyFor(reply.op, c)
      /\ Answered(c) /\ Extracted(c)
      /\ redis[calls[c].document_id] = None )
    => reply.status = 404

(***************************************************************************)
(* C4.  No store entry contains a session key: every entry is a value and  *)
(* an expiry, the value is the JSON of the pages alone, and every item of  *)
(* every page is a ciphertext and a bounding box.  An answered redact call *)
(* keeps the key nowhere but in its response.                              *)
(***************************************************************************)
C4_NoKeyInStore ==
  /\ \A d \in DocIds :
       redis[d] # None =>
         /\ DOMAIN redis[d] = {"value", "expire_at"}
         /\ DOMAIN json_loads(redis[d].value) = {"pages"}
         /\ \A p \in DOMAIN json_loads(redis[d].value).pages :
              \A i \in 1..Len(json_loads(redis[d].value).pages[p]) :
                LET item == json_loads(redis[d].value).pages[p][i]
                IN  /\ DOMAIN item = {"encrypted_text", "bbox"}
                    /\ item.encrypted_text.token = "ciphertext"
                    /\ Len(item.bbox) = 4
  /\ \A c \in Calls :
       calls[c].pc = "done" => "key" \notin DOMAIN calls[c]

\* A session is stored and its key has been returned.
C4_Witness ==
  \E c \in Calls :
    /\ Answered(c) /\ Extracted(c)
    /\ redis[calls[c].document_id] # None
    /\ urlsafe_b64decode(IssuedKey(c)).bytes = generate_key(c)

(***************************************************************************)
(* C5, as stated.  Whenever a redact call returns an X-Decryption-Key      *)
(* header, the store holds an entry under the returned document_id at the  *)
(* moment the response is produced.                                        *)
(***************************************************************************)
C5_KeyOnlyIfStored ==
  [][\A c \in Calls :
       (Returns(c) /\ "X-Decryption-Key" \in DOMAIN calls'[c].response.headers)
       => redis'[calls'[c].document_id] # None]_vars

(***************************************************************************)
(* C5, amended.  Whenever a redact call in which the engine extracted at   *)
(* least one item returns an X-Decryption-Key header, the store holds,     *)
(* at the moment the response is produced, an entry under the returned     *)
(* document_id: the items of that call encrypted under the returned key.   *)
(***************************************************************************)
C5_KeyOnlyIfStoredWhenExtracted ==
  [][\A c \in Calls :
       ( /\ Returns(c)
         /\ "X-Decryption-Key" \in DOMAIN calls'[c].response.headers
         /\ PlainItems(calls'[c].upload) # EmptyDict )
       => /\ redis'[calls'[c].document_id] # None
          /\ json_loads(redis'[calls'[c].document_id].value) =
               EncryptPages(PlainItems(calls'[c].upload),
                 urlsafe_b64decode(
                   calls'[c].response.headers["X-Decryption-Key"]).bytes)]_vars

\* A call that extracted items has returned its key and its entry is stored.
C5_Witness ==
  \E c \in Calls :
    /\ Answered(c) /\ Extracted(c)
    /\ "X-Decryption-Key" \in DOMAIN calls[c].response.headers
    /\ redis[calls[c].document_id] # None
    /\ redis[calls[c].document_id].expire_at = now + TTL_SECONDS

(***************************************************************************)
(* C6.  A redaction that extracts no items creates no store entry, and     *)
(* every later Decrypt or Restore on its document_id fails with            *)
(* SessionNotFound (404); a store entry exists only for a redaction that   *)
(* extracted at least one item.                                            *)
(***************************************************************************)
C6_NoItemsNoEntry ==
  /\ \A c \in Calls :
       (Answered(c) /\ ~Extracted(c)) =>
         /\ redis[calls[c].document_id] = None
         /\ ( reply.op \in {"decrypt", "unredact"} /\ ReplyFor(reply.op, c) )
            => reply.status = 404
  /\ \A d \in DocIds :
       redis[d] # None =>
         \E c \in Calls : Answered(c) /\ Extracted(c) /\ calls[c].document_id = d

(***************************************************************************)
(* C7.  A redact call that ends in an error (the engine failed, or the     *)
(* store write failed) answers with no document_id and no key and leaves   *)
(* the store exactly as it was before the call, with no entry under the    *)
(* call's document_id.                                                     *)
(***************************************************************************)
C7_FailedRedactLeavesNoSession ==
  [][\A c \in Calls :
       (Returns(c) /\ calls'[c].response.status # 200)
       => /\ calls'[c].response.headers = EmptyDict
          /\ calls'[c].response.body = None
          /\ redis' = redis
          /\ redis'[calls'[c].document_id] = None]_vars

\* A call failed at the store write, after another call stored its session.
C7_Witness ==
  \E c, b \in Calls :
    /\ Failed(c) /\ Extracted(c)
    /\ <<"redacted_files", "redacted", c>> \in files
    /\ redis[calls[c].document_id] = None
    /\ Answered(b) /\ redis[calls[b].document_id] # None

(***************************************************************************)
(* C8.  A malformed key string (no valid URL-safe encoding, or of the      *)
(* wrong length) passed to Decrypt or Restore always yields                *)
(* InvalidKeyFormat (400), for every document_id and every store state.    *)
(***************************************************************************)
C8_MalformedKeyIs400 ==
  ( /\ reply.op \in {"decrypt", "unredact"}
    /\ ~WellFormedKey(reply.decryption_key) )
  => reply.status = 400

(***************************************************************************)
(* C9.  Decrypt is all-or-nothing: on a stored session, a well-formed key  *)
(* that fails to decrypt an item ends the request in DecryptionFailed      *)
(* (403) with no decrypted text, and a success carries every stored item   *)
(* of every page.                                                          *)
(***************************************************************************)
C9_DecryptAllOrNothing ==
  \A c \in Calls :
    ( /\ ReplyFor("decrypt", c)
      /\ Answered(c) /\ Extracted(c)
      /\ redis[calls[c].document_id] # None
      /\ WellFormedKey(reply.decryption_key) )
    => IF DecryptPages(json_loads(redis[calls[c].document_id].value),
                       urlsafe_b64decode(reply.decryption_key).bytes).raised
         THEN reply.status = 403 /\ reply.body = None
         ELSE /\ reply.status = 200
              /\ \A p \in DOMAIN PlainItems(calls[c].upload) :
                   Len(reply.body.pages[p]) = Len(PlainItems(calls[c].upload)[p])

(***************************************************************************)
(* C10.  Two redact calls on different uploads, however interleaved, get   *)
(* distinct document_ids and distinct keys, and the store entry of each    *)
(* holds exactly the items of its own upload, encrypted under its own key; *)
(* every entry belongs to one call.                                        *)
(***************************************************************************)
C10_NoCrossContamination ==
  /\ \A c, b \in Calls :
       (c # b /\ calls[c].pc # "idle" /\ calls[b].pc # "idle") =>
         /\ calls[c].document_id # calls[b].document_id
         /\ (calls[c].pc = "engine" /\ calls[b].pc = "engine")
              => calls[c].key # calls[b].key
         /\ (Answered(c) /\ Answered(b)) => IssuedKey(c) # IssuedKey(b)
         /\ (Answered(c) /\ calls[b].pc = "engine")
              => urlsafe_b64decode(IssuedKey(c)).bytes # calls[b].key
  /\ \A c \in Calls :
       (Answered(c) /\ redis[calls[c].document_id] # None) =>
         json_loads(redis[calls[c].document_id].value) =
           EncryptPages(PlainItems(calls[c].upload),
                        urlsafe_b64decode(IssuedKey(c)).bytes)
  /\ \A d \in DocIds :
       redis[d] # None =>
         \E c \in Calls : Answered(c) /\ calls[c].document_id = d

\* The second call stored its session while the first, on another upload,
\* was still in its engine; then the first stored its own.
C10_Witness ==
  /\ Answered(1) /\ Answered(2)
  /\ calls[1].upload = "A" /\ calls[2].upload = "B"
  /\ redis[calls[1].document_id] # None
  /\ redis[calls[2].document_id] # None
  /\ redis[calls[2].document_id].expire_at < redis[calls[1].document_id].expire_at

(***************************************************************************)
(* C11.  A redact call that extracted items writes the store before it     *)
(* answers, so a Restore with the issued key, made after the response and  *)
(* before the time-to-live has elapsed, finds the session: it succeeds and *)
(* never fails with SessionNotFound (404).                                 *)
(***************************************************************************)
C11_RestoreFindsSession ==
  \A c \in Calls :
    (Answered(c) /\ Extracted(c)) =>
      /\ "stored_at" \in DOMAIN calls[c]
      /\ ( /\ ReplyFor("unredact", c)
           /\ reply.decryption_key = IssuedKey(c)
           /\ now < calls[c].stored_at + TTL_SECONDS )
         => reply.status = 200

\* A Restore with the issued key succeeds half a day after the redaction.
C11_Witness ==
  \E c \in Calls :
    /\ Answered(c) /\ Extracted(c)
    /\ ReplyFor("unredact", c)
    /\ reply.decryption_key = IssuedKey(c)
    /\ now > calls[c].stored_at
    /\ reply.status = 200
    /\ reply.body.items = PlainItems(calls[c].upload)

(***************************************************************************)
(* C12.  Decrypt and Restore consult the store that Redact writes: for     *)
(* every document_id (and key), Decrypt reports SessionNotFound (404)      *)
(* exactly when Restore does.                                              *)
(***************************************************************************)
C12_SameSessionNotFound ==
  process = "serving" =>
    \A d \in DocIds, k \in KeyInputs :
      (decrypt_endpoint(d, k).status = 404)
        <=> (\A n \in 1..MaxUnredacts, f \in RedactedFiles :
               unredact_endpoint(n, redis, f, d, k).response.status = 404)

(***************************************************************************)
(* C13.  Every temporary file of a request is released on every exit path  *)
(* of the redact and restore handlers: a file on disk is the upload of a   *)
(* redact call still in its engine, or a scheduled clean-up task will      *)
(* delete it.                                                              *)
(***************************************************************************)
C13_TempFilesReleased ==
  \A f \in files :
    \/ \E t \in tasks : \E i \in 1..Len(t) : t[i] = f
    \/ \E c \in Calls : calls[c].pc = "engine" /\ calls[c].input_path = f

(***************************************************************************)
(* C14.  When the store is unreachable at start-up the process never       *)
(* serves: no redact, decrypt or restore call is handled, and nothing is   *)
(* stored or written to disk.                                              *)
(***************************************************************************)
C14_NoServiceWithoutStore ==
  (process # "importing" /\ redis_client # RedisClient) =>
    /\ process \in {"exited", "crashed"}
    /\ \A c \in Calls : calls[c].pc = "idle"
    /\ reply = NoReply
    /\ files = {} /\ tasks = {}
    /\ \A d \in DocIds : redis[d] = None

\* The process exited on a refused connection, and time went on.
C14_Witness ==
  /\ process = "exited"
  /\ redis_client = None
  /\ now > 0

(***************************************************************************)
(* C15.  Decrypt and Restore only read the store: a step that answers one  *)
(* of them leaves every entry and the clock as they were.  An entry        *)
(* appears only in the step in which a redact call returns, under that     *)
(* call's document_id, and disappears only when its time-to-live has       *)
(* elapsed.                                                                *)
(***************************************************************************)
C15_DecryptRestoreReadOnly ==
  [][ /\ (reply = NoReply /\ reply' # NoReply) => (redis' = redis /\ now' = now)
      /\ \A d \in DocIds :
           /\ (redis[d] = None /\ redis'[d] # None) =>
                \E c \in Calls : Returns(c) /\ calls'[c].document_id = d
           /\ (redis[d] # None /\ redis'[d] = None) =>
                (now' > now /\ redis[d].expire_at <= now') ]_vars

\* A Restore has succeeded and the entry it read is still there, with the
\* expiry it was written with.
C15_Witness ==
  \E c \in Calls :
    /\ ReplyFor("unredact", c)
    /\ reply.status = 200
    /\ Answered(c)
    /\ redis[calls[c].document_id] # None
    /\ redis[calls[c].document_id].expire_at = calls[c].stored_at + TTL_SECONDS
    /\ now > calls[c].stored_at

(***************************************************************************)
(* C16.  The two redaction endpoints are substitutable: on the same call   *)
(* and the same engine and store outcome they make the same store write,   *)
(* return the same response or the same error and schedule the same        *)
(* clean-up; every stored session, of either endpoint, expires one         *)
(* time-to-live after it was written.                                      *)
(***************************************************************************)
C16_EndpointsSubstitutable ==
  /\ \A c \in Calls :
       calls[c].pc = "engine" =>
         \A eok \in BOOLEAN, sok \in BOOLEAN :
           redact_llm_endpoint(c, calls[c], redis, now, eok, sok)
             = redact_classic_endpoint(c, calls[c], redis, now, eok, sok)
  /\ \A c \in Calls :
       (Answered(c) /\ redis[calls[c].document_id] # None) =>
         redis[calls[c].document_id].expire_at
           = calls[c].stored_at + TTL_SECONDS
  /\ \A c \in Calls :
       Answered(c) =>
         DOMAIN calls[c].response.headers = {"X-Document-ID", "X-Decryption-Key"}

\* The same upload went through both endpoints and both sessions are stored.
C16_Witness ==
  /\ Answered(1) /\ Answered(2)
  /\ calls[1].endpoint = "llm" /\ calls[2].endpoint = "classic"
  /\ calls[1].upload = "A" /\ calls[2].upload = "A"
  /\ redis[calls[1].document_id] # None
  /\ redis[calls[2].document_id] # None

(***************************************************************************)
(* C17.  In Decrypt and in Restore the store lookup comes first and the    *)
(* key decoding second: a call for an absent or expired document_id ends   *)
(* in SessionNotFound (404) whatever the key string, and InvalidKeyFormat  *)
(* (400) is reported only for a document_id whose entry is present.        *)
(***************************************************************************)
C17_LookupBeforeDecode ==
  reply.op \in {"decrypt", "unredact"} =>
    /\ redis[reply.document_id] = None => reply.status = 404
    /\ reply.status = 400 => redis[reply.document_id] # None

(***************************************************************************)
(* C18.  Each redact call generates a document_id no other call has and    *)
(* no entry is stored under, and writes the store at most once: in the     *)
(* step in which it returns successfully, under its own document_id.  No   *)
(* store write replaces an existing entry or changes its expiry.           *)
(***************************************************************************)
C18_OneWritePerFreshId ==
  [][ /\ \A c \in Calls :
           (calls[c].pc = "idle" /\ calls'[c].pc = "engine") =>
             /\ redis[calls'[c].document_id] = None
             /\ \A b \in Calls \ {c} :
                  calls[b].pc # "idle" =>
                    calls[b].document_id # calls'[c].document_id
      /\ \A d \in DocIds :
           (redis'[d] # None /\ redis'[d] # redis[d]) =>
             /\ redis[d] = None
             /\ \E c \in Calls :
                  /\ Returns(c)
                  /\ calls'[c].response.status = 200
                  /\ calls[c].document_id = d
             /\ \A e \in DocIds \ {d} :
                  redis'[e] = redis[e] \/ redis'[e] = None ]_vars

\* Two calls have each written their own session, at different times.
C18_Witness ==
  /\ Answered(1) /\ Answered(2)
  /\ "stored_at" \in DOMAIN calls[1] /\ "stored_at" \in DOMAIN calls[2]
  /\ calls[1].stored_at < calls[2].stored_at
  /\ redis[calls[1].document_id] # None
  /\ redis[calls[2].document_id] # None
  /\ calls[1].document_id # calls[2].document_id
====
